---- MODULE Spec2Model ----
(***************************************************************************)
(* Model of src/script.js: the geothermal licence viewer.                  *)
(*                                                                         *)
(* JavaScript values are tagged records (null / string / number), strings  *)
(* are sequences of UTF-16 code units, so that String(x), parseInt(s), the *)
(* default Array.prototype.sort order and the strict comparison !== are    *)
(* computed the way the engine computes them.                              *)
(***************************************************************************)
EXTENDS Integers, Sequences, FiniteSets, TLC

VARIABLES
    pc,               \* position of the async loadGeothermalData
    caught,           \* the error its catch block received ("none" when none)
    originalData,     \* script.js:4
    currentData,      \* script.js:5
    geothermalLayer,  \* script.js:3
    mapLayers,        \* data layers currently attached to the Leaflet map
    viewport,         \* the map view: the setView default or a fitBounds
    baseLayer,        \* the active base tile layer
    legendHidden,     \* classList of #legend contains "hidden"
    loadingHidden,    \* classList of #loading contains "hidden"
    loadingContent,   \* innerHTML of #loading
    companyOptions,   \* option values appended to #licCompany
    numberOptions,    \* option values appended to #licNumber
    yearOptions,      \* option values appended to #licYear
    company,          \* #licCompany.value
    number,           \* #licNumber.value
    year,             \* #licYear.value
    date,             \* #issDate.value
    lastOp,           \* the handler that ran last
    effects,          \* the map/alert calls that handler made, in order
    threw,            \* whether that handler ended in an uncaught exception
    colorFeature,     \* getFeatureColor harness: the feature styled
    currentYear,      \* getFeatureColor harness: new Date().getFullYear()
    color             \* getFeatureColor harness: the color returned

vars == <<pc, caught, originalData, currentData, geothermalLayer, mapLayers,
          viewport, baseLayer, legendHidden, loadingHidden, loadingContent,
          companyOptions, numberOptions, yearOptions, company, number, year,
          date, lastOp, effects, threw, colorFeature, currentYear, color>>

----------------------------------------------------------------------------
(* Bounds *)

\* Longest features array a fetched document holds.
MaxFeatures == 2
\* getFeatureColor harness: licence years FirstYear..LastYear, clock FirstNow..LastYear.
FirstYear == 2015
FirstNow == 2023
LastYear == 2027

----------------------------------------------------------------------------
(* JavaScript values *)

Null == [t |-> "null", s |-> <<>>, n |-> 0]
Str(s) == [t |-> "string", s |-> s, n |-> 0]
Num(n) == [t |-> "number", s |-> <<>>, n |-> n]

\* ToBoolean, as used by `if (props.LIC_COM)`, `company && ...`, `!year`.
Truthy(v) ==
    CASE v.t = "null" -> FALSE
      [] v.t = "string" -> v.s # <<>>
      [] v.t = "number" -> v.n # 0

\* Code units used below.
Space == <<32>>
Minus == <<45>>
Plus == <<43>>
IsDigit(c) == c >= 48 /\ c <= 57

RECURSIVE DigitsOf(_)
DigitsOf(n) ==
    IF n < 10 THEN <<48 + n>> ELSE DigitsOf(n \div 10) \o <<48 + (n % 10)>>

\* Number::toString for an integer.
NumberToString(n) == IF n < 0 THEN Minus \o DigitsOf(-n) ELSE DigitsOf(n)

\* ToString: what `option.value = x` stores and what sort() compares.
JSToString(v) ==
    CASE v.t = "string" -> v.s
      [] v.t = "number" -> NumberToString(v.n)
      [] v.t = "null" -> <<110, 117, 108, 108>>

RECURSIVE SkipSpaces(_)
SkipSpaces(s) ==
    IF s # <<>> /\ <<Head(s)>> = Space THEN SkipSpaces(Tail(s)) ELSE s

RECURSIVE DigitPrefix(_)
DigitPrefix(s) ==
    IF s # <<>> /\ IsDigit(Head(s)) THEN <<Head(s)>> \o DigitPrefix(Tail(s)) ELSE <<>>

RECURSIVE DigitsValue(_, _)
DigitsValue(ds, acc) ==
    IF ds = <<>> THEN acc ELSE DigitsValue(Tail(ds), 10 * acc + (Head(ds) - 48))

\* parseInt(s) in radix 10: leading white space, an optional sign, then the
\* longest run of digits; NaN when that run is empty.
parseInt(s) ==
    LET t == SkipSpaces(s)
        neg == t # <<>> /\ <<Head(t)>> = Minus
        signed == t # <<>> /\ (<<Head(t)>> = Minus \/ <<Head(t)>> = Plus)
        ds == DigitPrefix(IF signed THEN Tail(t) ELSE t)
    IN  IF ds = <<>> THEN [nan |-> TRUE, n |-> 0]
        ELSE [nan |-> FALSE, n |-> IF neg THEN -DigitsValue(ds, 0) ELSE DigitsValue(ds, 0)]

\* a !== b for a property value a and a string b (an input's value).
StrictNeqString(a, b) == ~(a.t = "string" /\ a.s = b)

\* a !== p for a property value a and the number p that parseInt returned.
StrictNeqNumber(a, p) == ~(a.t = "number" /\ ~p.nan /\ a.n = p.n)

\* Code-unit order of two strings, the order of the default sort().
RECURSIVE StringLess(_, _)
StringLess(a, b) ==
    IF b = <<>> THEN FALSE
    ELSE IF a = <<>> THEN TRUE
    ELSE IF Head(a) # Head(b) THEN Head(a) < Head(b)
    ELSE StringLess(Tail(a), Tail(b))

\* Set.prototype.add on the insertion-ordered element list.
SetAdd(list, v) ==
    IF \E i \in 1..Len(list) : list[i] = v THEN list ELSE Append(list, v)

\* One insertion of the stable default sort: x goes after every element
\* whose string is not greater.
RECURSIVE SortInsert(_, _)
SortInsert(sorted, x) ==
    IF sorted = <<>> THEN <<x>>
    ELSE IF StringLess(JSToString(x), JSToString(Head(sorted))) THEN <<x>> \o sorted
    ELSE <<Head(sorted)>> \o SortInsert(Tail(sorted), x)

RECURSIVE SortFrom(_, _)
SortFrom(list, sorted) ==
    IF list = <<>> THEN sorted ELSE SortFrom(Tail(list), SortInsert(sorted, Head(list)))

\* Array.prototype.sort() with no comparator.
DefaultSort(list) == SortFrom(list, <<>>)

Reverse(list) == [i \in 1..Len(list) |-> list[Len(list) + 1 - i]]

----------------------------------------------------------------------------
(* Features and documents *)

\* A feature with a properties object.  Geometry is consumed by Leaflet only
\* and every feature is taken to have one.
Feature(com, numb, yr, iss) ==
    [props |-> TRUE, LIC_COM |-> com, LIC_NUMB |-> numb, LIC_YEAR |-> yr, ISS_DATE |-> iss]

\* A feature whose `properties` is null.
NullPropsFeature ==
    [props |-> FALSE, LIC_COM |-> Null, LIC_NUMB |-> Null, LIC_YEAR |-> Null, ISS_DATE |-> Null]

\* Strings of the data: "A", "B", "7", "12", "d", "e".
sA == <<65>>
sB == <<66>>
s7 == <<55>>
s12 == <<49, 50>>
sd == <<100>>
se == <<101>>

\* The features a fetched document is built from.
FeaturePool ==
    { Feature(Str(sA), Str(s7), Num(10), Str(sd)),
      Feature(Str(sA), Num(7), Num(9), Str(sd)),
      Feature(Str(sB), Str(s12), Num(10), Null),
      Feature(Null, Str(<<>>), Num(0), Str(se)),
      NullPropsFeature }

RECURSIVE SeqsUpTo(_, _)
SeqsUpTo(S, k) ==
    IF k = 0 THEN {<<>>}
    ELSE LET shorter == SeqsUpTo(S, k - 1)
         IN  shorter \cup {Append(q, x) : q \in {r \in shorter : Len(r) = k - 1}, x \in S}

\* What `await response.json()` can resolve to: a FeatureCollection, or an
\* object with no `features` member.
Doc(fs) == [ref |-> "fetched", hasFeatures |-> TRUE, features |-> fs]
NoFeaturesDoc == [ref |-> "fetched", hasFeatures |-> FALSE, features |-> <<>>]
Docs == {Doc(fs) : fs \in SeqsUpTo(FeaturePool, MaxFeatures)} \cup {NoFeaturesDoc}

\* The value null of originalData / currentData (script.js:4-5).
NullData == [ref |-> "null", hasFeatures |-> FALSE, features |-> <<>>]

\* No layer: geothermalLayer before its first assignment (script.js:3).
NoLayer == [id |-> 0, src |-> "none", features |-> <<>>]

DefaultView == [kind |-> "default", features |-> <<>>]
FitView(layer) == [kind |-> "fit", features |-> layer.features]

\* Text a user can type into #issDate.
DateTexts == {<<>>, sd}

----------------------------------------------------------------------------
(* populateFilters, script.js:67-107 *)

AnyNullProps(features) == \E i \in 1..Len(features) : ~features[i].props

\* The forEach of lines 73-79 for one property: the Set's elements in
\* insertion order.  A falsy value is not added.
RECURSIVE CollectUnique(_, _, _)
CollectUnique(features, field, acc) ==
    IF features = <<>> THEN acc
    ELSE LET v == Head(features)[field]
         IN  CollectUnique(Tail(features), field, IF Truthy(v) THEN SetAdd(acc, v) ELSE acc)

\* option.value = x: the DOM stores the string of x.
OptionValues(list) == [i \in 1..Len(list) |-> JSToString(list[i])]

\* Array.from(companies).sort() / Array.from(numbers).sort()
AscendingOptions(list) == OptionValues(DefaultSort(list))

\* Array.from(years).sort().reverse()
YearOptions(list) == OptionValues(Reverse(DefaultSort(list)))

\* populateFilters(geojsonData): the options it appends to the three selects,
\* or a TypeError raised inside the forEach, before anything is appended.
populateFilters(doc) ==
    IF ~doc.hasFeatures \/ AnyNullProps(doc.features)
    THEN [threw |-> TRUE, companies |-> <<>>, numbers |-> <<>>, years |-> <<>>]
    ELSE [threw |-> FALSE,
          companies |-> AscendingOptions(CollectUnique(doc.features, "LIC_COM", <<>>)),
          numbers |-> AscendingOptions(CollectUnique(doc.features, "LIC_NUMB", <<>>)),
          years |-> YearOptions(CollectUnique(doc.features, "LIC_YEAR", <<>>))]

----------------------------------------------------------------------------
(* getFeatureColor, script.js:182-198 *)

Gray == "#95a5a6"
Red == "#e74c3c"
Blue == "#3498db"
Green == "#2ecc71"

\* Mutant: the thresholds compared with > instead of >=.
getFeatureColorStrict(feature, now) ==
    LET yr == feature.LIC_YEAR
    IN  IF ~Truthy(yr) THEN Gray
        ELSE IF yr.n > now - 2 THEN Red
        ELSE IF yr.n > now - 5 THEN Blue
        ELSE Green

getFeatureColor(feature, now) ==
    LET yr == feature.LIC_YEAR
    IN  IF ~Truthy(yr) THEN Gray
        ELSE IF yr.n >= now - 2 THEN Red
        ELSE IF yr.n >= now - 5 THEN Blue
        ELSE Green

----------------------------------------------------------------------------
(* displayGeothermalData, script.js:110-179 *)

\* Mutant: the previous layer is not removed.
RemoveExistingSkipped(layer, layers) == layers

\* Lines 112-114: the layers left on the map.
RemoveExisting(layer, layers) == IF layer # NoLayer THEN layers \ {layer} ELSE layers

\* L.geoJSON raises when the object is no FeatureCollection (Leaflet's
\* "Invalid GeoJSON object."), or when the style / pointToLayer /
\* onEachFeature callbacks of lines 118-137 read a null `properties`.
\* L.geoJSON(null) builds an empty layer.
GeoJSONThrows(data) ==
    data # NullData /\ (~data.hasFeatures \/ AnyNullProps(data.features))

FreshId(layers) == CHOOSE i \in 1..(Cardinality(layers) + 1) : \A l \in layers : l.id # i

\* Mutant: fitBounds called whatever the length.
FitsBoundsAlways(data) == TRUE

\* Line 176.
FitsBounds(data) == Len(data.features) > 0

\* The whole call: the new geothermalLayer, the layers on the map, the
\* viewport, the map calls made and whether the call raised.
displayGeothermalData(data, layer, layers, view) ==
    LET kept == RemoveExisting(layer, layers)
        called == IF layer # NoLayer THEN <<"removeLayer">> ELSE <<>>
        new == [id |-> FreshId(kept), src |-> data.ref, features |-> data.features]
    IN  IF GeoJSONThrows(data)
        THEN [layer |-> layer, layers |-> kept, view |-> view,
              effects |-> called, threw |-> TRUE]
        ELSE IF data = NullData
        THEN [layer |-> new, layers |-> kept \cup {new}, view |-> view,
              effects |-> called \o <<"addLayer">>, threw |-> TRUE]
        ELSE IF FitsBounds(data)
        THEN [layer |-> new, layers |-> kept \cup {new}, view |-> FitView(new),
              effects |-> called \o <<"addLayer", "fitBounds">>, threw |-> FALSE]
        ELSE [layer |-> new, layers |-> kept \cup {new}, view |-> view,
              effects |-> called \o <<"addLayer">>, threw |-> FALSE]

----------------------------------------------------------------------------
(* applyFilters, script.js:201-231 *)

\* Mutant: the year input compared without parseInt.
RetainedNoParse(f, c, n, y, d) ==
    /\ ~(c # <<>> /\ StrictNeqString(f.LIC_COM, c))
    /\ ~(n # <<>> /\ StrictNeqString(f.LIC_NUMB, n))
    /\ ~(y # <<>> /\ StrictNeqString(f.LIC_YEAR, y))
    /\ ~(d # <<>> /\ StrictNeqString(f.ISS_DATE, d))

\* The filter callback of lines 210-220 on a feature with properties.
Retained(f, c, n, y, d) ==
    /\ ~(c # <<>> /\ StrictNeqString(f.LIC_COM, c))
    /\ ~(n # <<>> /\ StrictNeqString(f.LIC_NUMB, n))
    /\ ~(y # <<>> /\ StrictNeqNumber(f.LIC_YEAR, parseInt(y)))
    /\ ~(d # <<>> /\ StrictNeqString(f.ISS_DATE, d))

RECURSIVE FilterFeatures(_, _, _, _, _)
FilterFeatures(features, c, n, y, d) ==
    IF features = <<>> THEN <<>>
    ELSE (IF Retained(Head(features), c, n, y, d) THEN <<Head(features)>> ELSE <<>>)
         \o FilterFeatures(Tail(features), c, n, y, d)

\* Line 210 raises a TypeError when originalData is null or has no features
\* array, and the callback does when a non-empty criterion makes it read a
\* property of a null `properties`.
FilterThrows(data, c, n, y, d) ==
    \/ data = NullData
    \/ ~data.hasFeatures
    \/ (AnyNullProps(data.features) /\ (c # <<>> \/ n # <<>> \/ y # <<>> \/ d # <<>>))

\* Line 228.
NoResults(features) == Len(features) = 0

----------------------------------------------------------------------------
(* State machine *)

ErrorMessage == "Error loading data. Please ensure Geothermal.geojson is in C:\\WebBased Map folder."

harness == <<colorFeature, currentYear, color>>
dataVars == <<originalData, currentData>>
mapVars == <<geothermalLayer, mapLayers, viewport>>
optionVars == <<companyOptions, numberOptions, yearOptions>>
inputVars == <<company, number, year, date>>
loadingVars == <<loadingHidden, loadingContent>>
loaderVars == <<pc, caught>>

\* The page after window.onload ran initMap (script.js:9-35) up to the
\* first await of loadGeothermalData (line 40).
PageInit ==
    /\ pc = "fetch"
    /\ caught = "none"
    /\ originalData = NullData
    /\ currentData = NullData
    /\ geothermalLayer = NoLayer
    /\ mapLayers = {}
    /\ viewport = DefaultView
    /\ baseLayer = "osm"
    /\ legendHidden \in BOOLEAN
    /\ loadingHidden = FALSE
    /\ loadingContent = "loading"
    /\ companyOptions = <<>>
    /\ numberOptions = <<>>
    /\ yearOptions = <<>>
    /\ company = <<>>
    /\ number = <<>>
    /\ year = <<>>
    /\ date = <<>>
    /\ lastOp = "initMap"
    /\ effects = <<>>
    /\ threw = FALSE

Init ==
    /\ PageInit
    /\ colorFeature = NullPropsFeature
    /\ currentYear = 0
    /\ color = "unset"

\* Mutant: the catch block only logs.
CatchSilent(error) ==
    /\ caught' = error
    /\ pc' = "failed"
    /\ lastOp' = "load"
    /\ effects' = <<>>
    /\ threw' = FALSE
    /\ UNCHANGED <<loadingVars, baseLayer, legendHidden, inputVars, harness>>

\* Lines 59-63: the catch block.
Catch(error) ==
    /\ caught' = error
    /\ loadingContent' = ErrorMessage
    /\ pc' = "failed"
    /\ lastOp' = "load"
    /\ effects' = <<>>
    /\ threw' = FALSE
    /\ UNCHANGED <<loadingHidden, baseLayer, legendHidden, inputVars, harness>>

\* Line 40: the fetch promise rejects (transport error).
FetchRejects ==
    /\ pc = "fetch"
    /\ Catch("TypeError: Failed to fetch")
    /\ UNCHANGED <<dataVars, mapVars, optionVars>>

\* Lines 42-44: the response is not ok.
FetchNotOk ==
    /\ pc = "fetch"
    /\ Catch("Error: Failed to load geothermal data")
    /\ UNCHANGED <<dataVars, mapVars, optionVars>>

\* Lines 40-46: the response is ok; the loader awaits response.json().
FetchOk ==
    /\ pc = "fetch"
    /\ pc' = "json"
    /\ UNCHANGED <<caught, dataVars, mapVars, optionVars, inputVars, loadingVars,
                   baseLayer, legendHidden, lastOp, effects, threw, harness>>

\* Line 46: the body is not valid JSON.
JsonRejects ==
    /\ pc = "json"
    /\ Catch("SyntaxError")
    /\ UNCHANGED <<dataVars, mapVars, optionVars>>

\* Lines 46-57 (and 59-63 when populateFilters or displayGeothermalData
\* raises): the body parsed to doc.
JsonResolves(doc) ==
    /\ pc = "json"
    /\ originalData' = doc
    /\ currentData' = doc
    /\ LET p == populateFilters(doc)
           r == displayGeothermalData(doc, geothermalLayer, mapLayers, viewport)
       IN  IF p.threw
           THEN /\ Catch("TypeError")
                /\ UNCHANGED <<mapVars, optionVars>>
           ELSE /\ companyOptions' = companyOptions \o p.companies
                /\ numberOptions' = numberOptions \o p.numbers
                /\ yearOptions' = yearOptions \o p.years
                /\ geothermalLayer' = r.layer
                /\ mapLayers' = r.layers
                /\ viewport' = r.view
                /\ IF r.threw
                   THEN /\ caught' = "Error"
                        /\ loadingContent' = ErrorMessage
                        /\ pc' = "failed"
                        /\ UNCHANGED loadingHidden
                   ELSE /\ loadingHidden' = TRUE
                        /\ pc' = "done"
                        /\ UNCHANGED <<caught, loadingContent>>
                /\ lastOp' = "load"
                /\ effects' = r.effects
                /\ threw' = FALSE
                /\ UNCHANGED <<baseLayer, legendHidden, inputVars, harness>>

\* What a select can be set to: one of its options, or nothing selected.
SelectValues(options) == {<<>>} \cup {options[i] : i \in 1..Len(options)}

UserInput ==
    /\ lastOp' = "input"
    /\ effects' = <<>>
    /\ threw' = FALSE
    /\ UNCHANGED <<loaderVars, dataVars, mapVars, optionVars, loadingVars,
                   baseLayer, legendHidden, harness>>

SelectCompany(v) ==
    /\ v \in SelectValues(companyOptions)
    /\ v # company
    /\ company' = v
    /\ UserInput
    /\ UNCHANGED <<number, year, date>>

SelectNumber(v) ==
    /\ v \in SelectValues(numberOptions)
    /\ v # number
    /\ number' = v
    /\ UserInput
    /\ UNCHANGED <<company, year, date>>

SelectYear(v) ==
    /\ v \in SelectValues(yearOptions)
    /\ v # year
    /\ year' = v
    /\ UserInput
    /\ UNCHANGED <<company, number, date>>

TypeDate(v) ==
    /\ v \in DateTexts
    /\ v # date
    /\ date' = v
    /\ UserInput
    /\ UNCHANGED <<company, number, year>>

\* script.js:201-231
applyFilters ==
    /\ lastOp' = "apply"
    /\ IF FilterThrows(originalData, company, number, year, date)
       THEN /\ threw' = TRUE
            /\ effects' = <<>>
            /\ UNCHANGED <<currentData, mapVars>>
       ELSE LET filteredData ==
                    [ref |-> "filtered", hasFeatures |-> TRUE,
                     features |-> FilterFeatures(originalData.features,
                                                 company, number, year, date)]
                r == displayGeothermalData(filteredData, geothermalLayer,
                                           mapLayers, viewport)
                alerts == ~r.threw /\ NoResults(filteredData.features)
            IN  /\ currentData' = filteredData
                /\ geothermalLayer' = r.layer
                /\ mapLayers' = r.layers
                /\ viewport' = r.view
                /\ effects' = IF alerts THEN Append(r.effects, "alert") ELSE r.effects
                /\ threw' = r.threw
    /\ UNCHANGED <<loaderVars, originalData, optionVars, inputVars, loadingVars,
                   baseLayer, legendHidden, harness>>

\* Mutant: clearFilters keeps the filtered dataset.
ResetDataKeepsCurrent(original, current) == current

\* Lines 242-243: the dataset clearFilters makes current and displays.
ResetData(original, current) == original

\* script.js:234-244
clearFilters ==
    LET reset == ResetData(originalData, currentData)
        r == displayGeothermalData(reset, geothermalLayer, mapLayers, viewport)
    IN  /\ lastOp' = "clear"
        /\ company' = <<>>
        /\ number' = <<>>
        /\ year' = <<>>
        /\ date' = <<>>
        /\ currentData' = reset
        /\ geothermalLayer' = r.layer
        /\ mapLayers' = r.layers
        /\ viewport' = r.view
        /\ effects' = r.effects
        /\ threw' = r.threw
        /\ UNCHANGED <<loaderVars, originalData, optionVars, loadingVars,
                       baseLayer, legendHidden, harness>>

\* script.js:247-250
toggleLegend ==
    /\ legendHidden' = ~legendHidden
    /\ lastOp' = "legend"
    /\ effects' = <<>>
    /\ threw' = FALSE
    /\ UNCHANGED <<loaderVars, dataVars, mapVars, optionVars, inputVars,
                   loadingVars, baseLayer, harness>>

\* The L.control.layers radio of script.js:26-31.
SwitchBasemap ==
    /\ baseLayer' = IF baseLayer = "osm" THEN "satellite" ELSE "osm"
    /\ lastOp' = "basemap"
    /\ effects' = <<>>
    /\ threw' = FALSE
    /\ UNCHANGED <<loaderVars, dataVars, mapVars, optionVars, inputVars,
                   loadingVars, legendHidden, harness>>

Next ==
    \/ FetchRejects
    \/ FetchNotOk
    \/ FetchOk
    \/ JsonRejects
    \/ \E doc \in Docs : JsonResolves(doc)
    \/ \E v \in SelectValues(companyOptions) : SelectCompany(v)
    \/ \E v \in SelectValues(numberOptions) : SelectNumber(v)
    \/ \E v \in SelectValues(yearOptions) : SelectYear(v)
    \/ \E v \in DateTexts : TypeDate(v)
    \/ applyFilters
    \/ clearFilters
    \/ toggleLegend
    \/ SwitchBasemap

Spec == Init /\ [][Next]_vars

----------------------------------------------------------------------------
(* getFeatureColor on its own: every licence year against every clock year *)

ColorYears == {Null, Num(-1), Num(0)} \cup {Num(y) : y \in FirstYear..LastYear}

InitColor ==
    /\ PageInit
    /\ colorFeature \in {Feature(Str(sA), Str(s7), yr, Str(sd)) : yr \in ColorYears}
    /\ currentYear \in FirstNow..LastYear
    /\ color = "unset"

\* The style callback of script.js:118-125 on one feature.
StyleFeature ==
    /\ color = "unset"
    /\ color' = getFeatureColor(colorFeature, currentYear)
    /\ UNCHANGED <<loaderVars, dataVars, mapVars, optionVars, inputVars, loadingVars,
                   baseLayer, legendHidden, lastOp, effects, threw,
                   colorFeature, currentYear>>

NextColor == StyleFeature

SpecColor == InitColor /\ [][NextColor]_vars

----------------------------------------------------------------------------
(* Properties *)

Contains(list, x) == \E i \in 1..Len(list) : list[i] = x
NoDuplicates(list) == \A i, j \in 1..Len(list) : i # j => list[i] # list[j]
Loaded == pc = "done"
NoCriteria == company = <<>> /\ number = <<>> /\ year = <<>> /\ date = <<>>

\* The criteria of the four inputs, as the specification states them: a
\* non-empty text criterion needs a string property equal to it, a non-empty
\* year needs a numeric property equal to the parsed year.
MeetsCriteria(f) ==
    /\ company # <<>> => f.LIC_COM = Str(company)
    /\ number # <<>> => f.LIC_NUMB = Str(number)
    /\ year # <<>> => (~parseInt(year).nan /\ f.LIC_YEAR = Num(parseInt(year).n))
    /\ date # <<>> => f.ISS_DATE = Str(date)

\* C1: after Apply on a loaded dataset, the current dataset is exactly the
\* subsequence of the original features, in their order, that meet every
\* non-empty criterion; with no criterion it has all the original features.
C1_ApplyKeepsExactlyTheMatches ==
    (Loaded /\ lastOp = "apply") =>
        /\ ~threw
        /\ currentData.features = SelectSeq(originalData.features, MeetsCriteria)
        /\ NoCriteria => currentData.features = originalData.features

C1_Witness ==
    /\ Loaded /\ lastOp = "apply"
    /\ company # <<>> /\ year # <<>>
    /\ Len(originalData.features) = 2
    /\ Len(currentData.features) = 1

\* Right after Clear on a loaded dataset the four inputs are empty, the
\* current dataset is the original object, and the one attached layer is
\* built from it.
C2_AfterClear ==
    (Loaded /\ lastOp = "clear") =>
        /\ NoCriteria
        /\ currentData = originalData
        /\ currentData.ref = "fetched"
        /\ mapLayers = {geothermalLayer}
        /\ geothermalLayer.src = originalData.ref
        /\ geothermalLayer.features = originalData.features

\* C2: C2_AfterClear holds in every state, and once the load has succeeded
\* no step (Apply, Clear, legend toggle, basemap switch, input) changes the
\* original dataset.
C2_OriginalKeptAndClearRestores ==
    /\ []C2_AfterClear
    /\ [][Loaded => originalData' = originalData]_vars

C2_Witness ==
    /\ Loaded /\ lastOp = "clear"
    /\ Len(originalData.features) = 2
    /\ baseLayer = "satellite"
    /\ legendHidden

\* C3: at most one data layer is attached to the map, and it is the one
\* geothermalLayer refers to.
C3_AtMostOneLayer ==
    /\ Cardinality(mapLayers) <= 1
    /\ mapLayers \subseteq {geothermalLayer}

C3_Witness ==
    /\ lastOp = "apply"
    /\ effects = <<"removeLayer", "addLayer", "fitBounds">>
    /\ Cardinality(mapLayers) = 1

\* The errors of a failed fetch or a failed parse.
EarlyErrors ==
    {"TypeError: Failed to fetch", "Error: Failed to load geothermal data", "SyntaxError"}

C4_FailedEarly == pc = "failed" /\ caught \in EarlyErrors

C4_StateAfterFailure ==
    C4_FailedEarly =>
        /\ loadingContent = ErrorMessage
        /\ ~loadingHidden
        /\ originalData = NullData
        /\ currentData = NullData
        /\ companyOptions = <<>> /\ numberOptions = <<>> /\ yearOptions = <<>>

\* C4: when the fetch is rejected, the response is not ok, or the body does
\* not parse, that step writes the diagnostic message and changes neither
\* the datasets, nor the dropdown options, nor the layers on the map; the
\* datasets stay null and the options empty from then on, and the loader
\* never runs again.
C4_FailureOnlyShowsMessage ==
    /\ []C4_StateAfterFailure
    /\ [][(pc # "failed" /\ C4_FailedEarly') =>
            (loadingContent' = ErrorMessage /\ UNCHANGED <<dataVars, optionVars, mapVars>>)]_vars
    /\ [][pc = "failed" => UNCHANGED loaderVars]_vars

C4_Witness ==
    /\ C4_FailedEarly
    /\ caught = "SyntaxError"
    /\ lastOp = "load"

StrictlyAscending(list) == \A i \in 1..(Len(list) - 1) : StringLess(list[i], list[i + 1])
StrictlyDescendingNumbers(list) ==
    \A i \in 1..(Len(list) - 1) : parseInt(list[i]).n > parseInt(list[i + 1]).n

\* C5: the option lists hold no duplicate and no empty value, the years are
\* strictly descending as numbers, the companies and the licence numbers
\* strictly ascending.
C5_OptionsSortedUnique ==
    Loaded =>
        /\ NoDuplicates(companyOptions) /\ NoDuplicates(numberOptions) /\ NoDuplicates(yearOptions)
        /\ ~Contains(companyOptions, <<>>) /\ ~Contains(numberOptions, <<>>)
        /\ ~Contains(yearOptions, <<>>)
        /\ StrictlyDescendingNumbers(yearOptions)
        /\ StrictlyAscending(companyOptions)
        /\ StrictlyAscending(numberOptions)

\* The color classes of a year that is present.
ColorByAge(y, now) ==
    IF y >= now - 2 THEN Red ELSE IF y >= now - 5 THEN Blue ELSE Green

\* C6 as claimed: gray exactly when LIC_YEAR is absent, otherwise red, blue
\* or green by the thresholds currentYear - 2 and currentYear - 5.
C6_ColorOfEveryPresentYear ==
    color # "unset" =>
        color = IF colorFeature.LIC_YEAR = Null THEN Gray
                ELSE ColorByAge(colorFeature.LIC_YEAR.n, currentYear)

\* C6 amended: gray when LIC_YEAR is absent or 0, otherwise red, blue or
\* green by the thresholds; year = currentYear - 2 is red and
\* year = currentYear - 5 is blue.
C6_ColorOfEveryNonZeroYear ==
    color # "unset" =>
        /\ color \in {Gray, Red, Blue, Green}
        /\ color = IF colorFeature.LIC_YEAR \in {Null, Num(0)} THEN Gray
                   ELSE ColorByAge(colorFeature.LIC_YEAR.n, currentYear)
        /\ colorFeature.LIC_YEAR = Num(currentYear - 2) => color = Red
        /\ colorFeature.LIC_YEAR = Num(currentYear - 5) => color = Blue

C6_Witness ==
    /\ color = Blue
    /\ colorFeature.LIC_YEAR = Num(currentYear - 5)

\* C7: Apply on a loaded dataset raises nothing and alerts exactly when the
\* filtered result is empty; with an empty result it first removes the
\* previous layer and attaches a layer of zero features, leaves the viewport
\* as it was, and only then alerts.
C7_EmptyResultDisplaysThenAlerts ==
    [][(Loaded /\ applyFilters) =>
         /\ ~threw'
         /\ Contains(effects', "alert") <=> currentData'.features = <<>>
         /\ currentData'.features = <<>> =>
              /\ effects' = <<"removeLayer", "addLayer", "alert">>
              /\ currentData'.ref = "filtered"
              /\ mapLayers' = {geothermalLayer'}
              /\ geothermalLayer'.features = <<>>
              /\ viewport' = viewport]_vars

C7_Witness ==
    /\ Loaded /\ lastOp = "apply"
    /\ Len(originalData.features) = 2
    /\ currentData.features = <<>>
    /\ effects = <<"removeLayer", "addLayer", "alert">>
    /\ viewport.kind = "fit"

\* C8: Apply and Clear raise nothing while originalData is still null, and
\* leave both datasets null and the map without a data layer.
C8_HandlersSafeBeforeLoad ==
    (lastOp \in {"apply", "clear"} /\ originalData = NullData) =>
        /\ ~threw
        /\ currentData = NullData
        /\ mapLayers = {}

\* C9: the error message is shown only with the dataset unset, no option
\* added and no layer built from a document attached; and once the loader
\* has settled with originalData set, the loading indicator is hidden and a
\* layer built from the dataset is attached.
C9_ErrorOnlyWithoutDataset ==
    /\ loadingContent = ErrorMessage =>
         /\ originalData = NullData
         /\ currentData = NullData
         /\ companyOptions = <<>> /\ numberOptions = <<>> /\ yearOptions = <<>>
         /\ \A l \in mapLayers : l.src = "null"
    /\ (pc \in {"done", "failed"} /\ originalData # NullData) =>
         /\ loadingHidden
         /\ \E l \in mapLayers : l.src # "null"

\* populateFilters made `option` from the property value v.
ProducedBy(v, option) == Truthy(v) /\ JSToString(v) = option

\* C10: a dropdown option applied as the only criterion retains every
\* feature whose property produced it, so at least one.
C10_OfferedOptionMatches ==
    (Loaded /\ lastOp = "apply" /\ date = <<>>) =>
        /\ (company # <<>> /\ number = <<>> /\ year = <<>>) =>
             /\ currentData.features # <<>>
             /\ \A i \in 1..Len(originalData.features) :
                  ProducedBy(originalData.features[i].LIC_COM, company)
                    => Contains(currentData.features, originalData.features[i])
        /\ (company = <<>> /\ number # <<>> /\ year = <<>>) =>
             /\ currentData.features # <<>>
             /\ \A i \in 1..Len(originalData.features) :
                  ProducedBy(originalData.features[i].LIC_NUMB, number)
                    => Contains(currentData.features, originalData.features[i])
        /\ (company = <<>> /\ number = <<>> /\ year # <<>>) =>
             /\ currentData.features # <<>>
             /\ \A i \in 1..Len(originalData.features) :
                  ProducedBy(originalData.features[i].LIC_YEAR, year)
                    => Contains(currentData.features, originalData.features[i])

====
